---- MODULE Spec2Model ----
(***************************************************************************)
(* Model of self_storage_cost_calculator.py: the linear-density cost model *)
(* (SelfStorageCostCalculator.calculate) and the height sensitivity        *)
(* analysis built on it.                                                   *)
(*                                                                         *)
(* Numbers.  The program computes in binary floating point and rounds the  *)
(* report fields with round(x, n).  The model computes the same            *)
(* expressions exactly, on scaled integers:                                *)
(*    pum_m2                 in tenths of a m2        (126.5 m2 = 1265)    *)
(*    height_m               in tenths of a metre     (2.1 m    = 21)      *)
(*    pct_door_075, pct_1m   in twentieths            (0.65     = 13)      *)
(*    prices                 in PLN                                        *)
(* Every intermediate value is a numerator over a fixed denominator, named *)
(* next to its definition.  Report fields are integers in the unit round() *)
(* produces: hundredths for areas, lengths and costs, tenths for           *)
(* door_count, thousandths for avg_door_width_m.                           *)
(*                                                                         *)
(* Rounding.  round(x, n) returns the multiple of 10^-n nearest to the     *)
(* double x.  When the exact value lies halfway between two multiples, the *)
(* double that the program holds lies just below, just above or on the     *)
(* halfway point, depending on the representation error of the operands,   *)
(* and round() returns the lower or the upper neighbour accordingly.  The  *)
(* model does not compute representation errors: the variable tie holds,   *)
(* for every rounded field, which neighbour a halfway case yields, and     *)
(* Init ranges over both.  The direction is a function of the computation  *)
(* (same operands, same result), so it is fixed per behaviour.             *)
(***************************************************************************)
EXTENDS Integers, FiniteSets, Sequences, TLC

\* ---------------------------------------------------------------- constants

\* mb of gray wall per m2 PUM, in hundredths (0.79)
COEFF_GRAY_LIN == 79
\* mb of solid front wall per m2 PUM, in hundredths (0.23)
COEFF_KICKER_LIN == 23
\* doors per m2 PUM, in tenths (0.30)
COEFF_DOOR_DENSITY == 3
\* door clear height, in tenths of a metre (2.1)
DOOR_HEIGHT_STANDARD == 21

PRICE_WHITE == 110
PRICE_GRAY == 84
PRICE_KICKER == 81
PRICE_DOOR_1M == 780
PRICE_DOOR_075M == 780

\* ------------------------------------------------------------------- bounds

\* floor areas 0 .. MaxPum tenths of a m2, plus the two areas main() uses
MaxPum == 1
\* hall heights, in tenths of a metre: -1 .. LowHeight (no hall, or less)
\* and MinHeight .. MaxHeight (around the door clear height and above)
LowHeight == 1
MinHeight == 18
MaxHeight == 30

\* the floor areas of main(): 130.0 m2 and Project B's 126.5 m2
MainPums == {1300, 1265}
PumValues == (0 .. MaxPum) \cup MainPums
HeightValues == (-1 .. LowHeight) \cup (MinHeight .. MaxHeight)
\* door mixes <<pct_door_075, pct_door_1m>>: the default, main()'s two mixes
\* and the two one-width boundaries
DoorMixes == { <<10, 10>>, <<12, 8>>, <<13, 7>>, <<20, 0>>, <<0, 20>> }

\* __init__ arguments: the defaults, and one override of every price
DefaultPrices ==
    [price_white |-> PRICE_WHITE, price_gray |-> PRICE_GRAY,
     price_kicker |-> PRICE_KICKER, price_door_1m |-> PRICE_DOOR_1M,
     price_door_075m |-> PRICE_DOOR_075M]
OverridePrices ==
    [price_white |-> 95, price_gray |-> 70, price_kicker |-> 60,
     price_door_1m |-> 800, price_door_075m |-> 650]
PriceTables == {DefaultPrices, OverridePrices}

\* -------------------------------------------------------------------- state

VARIABLES
    self,      \* the calculator object: its five price attributes
    ctor,      \* the prices __init__ was called with (history variable)
    args,      \* the arguments the caller passes in this behaviour
    tie,       \* outcome of round() at a halfway case, per rounded field
    report,    \* the MaterialReport of the last calculate call, or NoReport
    analysis   \* the result of the last height_sensitivity_analysis, or NoAnalysis

vars == <<self, ctor, args, tie, report, analysis>>

NoReport == [none |-> TRUE]
NoAnalysis == [none |-> TRUE]
HasReport == "none" \notin DOMAIN report
HasAnalysis == "none" \notin DOMAIN analysis

\* ------------------------------------------------------------------ numbers

\* Mutant: the clamp left out.
Max0_unclamped(x) == x

\* max(0.0, x)
Max0(x) == IF x > 0 THEN x ELSE 0

\* The exact value num/unit lies halfway between two integers.
IsTie(num, unit) == 2 * (num % unit) = unit

\* round(): num/unit to the nearest integer; up (0 or 1) is the neighbour a
\* halfway case yields.
Round(num, unit, up) ==
    LET q == num \div unit
        r == num % unit
    IN  IF 2 * r < unit THEN q
        ELSE IF 2 * r > unit THEN q + 1
        ELSE q + up

\* A cost: w whole hundredths of a PLN plus f/800 of a hundredth (0 <= f < 800).
\* The total cost does not fit a 32-bit numerator over one denominator.
Cost(num, unit) ==
    [w |-> num \div unit, f |-> (num % unit) * (800 \div unit)]

CostAdd(a, b) ==
    [w |-> a.w + b.w + ((a.f + b.f) \div 800), f |-> (a.f + b.f) % 800]

CostIsTie(c) == 2 * c.f = 800

\* round(cost, 2)
CostRound(c, up) ==
    IF 2 * c.f < 800 THEN c.w
    ELSE IF 2 * c.f > 800 THEN c.w + 1
    ELSE c.w + up

\* --------------------------------------------------------- the calculator

\* _avg_door_width: pct_door_075 * 0.75 + pct_door_1m * 1.0, in 1/80 m
\* (0.75 * p/20 = 3p/80, 1.0 * q/20 = 4q/80)
_avg_door_width(pct_door_075, pct_door_1m) ==
    pct_door_075 * 3 + pct_door_1m * 4

\* Mutant: the density added instead of multiplied.
_door_count_added(pum) == pum + COEFF_DOOR_DENSITY

\* _door_count: pum * COEFF_DOOR_DENSITY, in hundredths of a door
_door_count(pum) == pum * COEFF_DOOR_DENSITY

\* _door_cost: door_count * pct_door_075 * price_door_075m
\*           + door_count * pct_door_1m  * price_door_1m, in 1/2000 PLN
_door_cost(s, door_count, pct_door_075, pct_door_1m) ==
    LET n_075 == door_count * pct_door_075
        n_1m  == door_count * pct_door_1m
    IN  n_075 * s.price_door_075m + n_1m * s.price_door_1m

\* The body of calculate up to the return statement: the unrounded values.
\*   gray_area, white_part_lower      numerator over 10000  (m2)
\*   kicker_length                    numerator over 1000   (mb)
\*   door_count                       numerator over 100    (doors)
\*   avg_width                        numerator over 80     (m)
\*   height_above_door                numerator over 10     (m)
\*   white_part_lintels, white_area   numerator over 80000  (m2)
\*   cost_*                           Cost records
Quantities(s, pum_m2, height_m, pct_door_075, pct_door_1m) ==
    LET gray_mb            == pum_m2 * COEFF_GRAY_LIN
        gray_area          == gray_mb * height_m
        kicker_length      == pum_m2 * COEFF_KICKER_LIN
        white_part_lower   == (pum_m2 * COEFF_KICKER_LIN) * height_m
        door_count         == _door_count(pum_m2)
        avg_width          == _avg_door_width(pct_door_075, pct_door_1m)
        height_above_door  == Max0(height_m - DOOR_HEIGHT_STANDARD)
        white_part_lintels ==
            (pum_m2 * COEFF_DOOR_DENSITY) * avg_width * height_above_door
        white_area         == 8 * white_part_lower + white_part_lintels
        cost_gray          == Cost(gray_area * s.price_gray, 100)
        cost_white         == Cost(white_area * s.price_white, 800)
        cost_kicker        == Cost(kicker_length * s.price_kicker, 10)
        cost_doors         ==
            Cost(_door_cost(s, door_count, pct_door_075, pct_door_1m), 20)
        cost_total         ==
            CostAdd(CostAdd(CostAdd(cost_gray, cost_white), cost_kicker),
                    cost_doors)
    IN  [gray_area |-> gray_area, white_area |-> white_area,
         kicker_length |-> kicker_length, door_count |-> door_count,
         avg_width |-> avg_width,
         white_part_lower |-> white_part_lower,
         white_part_lintels |-> white_part_lintels,
         cost_gray |-> cost_gray, cost_white |-> cost_white,
         cost_kicker |-> cost_kicker, cost_doors |-> cost_doors,
         cost_total |-> cost_total]

\* The return statement of calculate: the MaterialReport, every field
\* rounded.  t gives the outcome of each round() at a halfway case.
MaterialReport(v, t) ==
    [gray_area_m2     |-> Round(v.gray_area, 100, t.gray_area_m2),
     white_area_m2    |-> Round(v.white_area, 800, t.white_area_m2),
     kicker_length_mb |-> Round(v.kicker_length, 10, t.kicker_length_mb),
     door_count       |-> Round(v.door_count, 10, t.door_count),
     avg_door_width_m |-> Round(v.avg_width * 25, 2, t.avg_door_width_m),
     cost_gray_pln    |-> CostRound(v.cost_gray, t.cost_gray_pln),
     cost_white_pln   |-> CostRound(v.cost_white, t.cost_white_pln),
     cost_kicker_pln  |-> CostRound(v.cost_kicker, t.cost_kicker_pln),
     cost_doors_pln   |-> CostRound(v.cost_doors, t.cost_doors_pln),
     cost_total_pln   |-> CostRound(v.cost_total, t.cost_total_pln)]

\* Mutant: the lintels subtracted from the lower part instead of added.
Calculate_lintels_subtracted(s, pum_m2, height_m, pct_door_075, pct_door_1m, t) ==
    LET v == Quantities(s, pum_m2, height_m, pct_door_075, pct_door_1m)
    IN  MaterialReport(
            [v EXCEPT !.white_area =
                8 * v.white_part_lower - v.white_part_lintels], t)

\* Mutant: the kicker length taken over the hall height, as the lower white
\* part is.
Calculate_kicker_by_height(s, pum_m2, height_m, pct_door_075, pct_door_1m, t) ==
    LET v == Quantities(s, pum_m2, height_m, pct_door_075, pct_door_1m)
        k == pum_m2 * COEFF_KICKER_LIN * height_m
    IN  MaterialReport(
            [v EXCEPT !.kicker_length = k,
                      !.cost_kicker = Cost(k * s.price_kicker, 10)], t)

\* Mutant: the white wall without its lower part.
Calculate_lintels_only(s, pum_m2, height_m, pct_door_075, pct_door_1m, t) ==
    LET v == Quantities(s, pum_m2, height_m, pct_door_075, pct_door_1m)
    IN  MaterialReport(
            [v EXCEPT !.white_area = v.white_part_lintels,
                      !.cost_white =
                          Cost(v.white_part_lintels * s.price_white, 800)], t)

\* Mutant: the door cost left out of the total.
Calculate_total_without_doors(s, pum_m2, height_m, pct_door_075, pct_door_1m, t) ==
    LET v == Quantities(s, pum_m2, height_m, pct_door_075, pct_door_1m)
    IN  MaterialReport(
            [v EXCEPT !.cost_total =
                CostAdd(CostAdd(v.cost_gray, v.cost_white), v.cost_kicker)], t)

\* calculate
Calculate(s, pum_m2, height_m, pct_door_075, pct_door_1m, t) ==
    MaterialReport(
        Quantities(s, pum_m2, height_m, pct_door_075, pct_door_1m), t)

\* The second half of height_sensitivity_analysis: the differences of the
\* rounded fields of the two reports.  The difference of two values with two
\* decimals is a whole number of hundredths, which round(.., 2) returns
\* unchanged.
Savings(r_high, r_low, pum_m2, height_high, height_low) ==
    LET savings_white == r_high.cost_white_pln - r_low.cost_white_pln
        savings_gray  == r_high.cost_gray_pln - r_low.cost_gray_pln
        savings_total == r_high.cost_total_pln - r_low.cost_total_pln
    IN  [r_high |-> r_high,
         r_low  |-> r_low,
         analysis |->
            [height_high_m |-> height_high,
             height_low_m  |-> height_low,
             pum_m2        |-> pum_m2,
             savings_white_pln |-> Round(savings_white, 1, 0),
             savings_gray_pln  |-> Round(savings_gray, 1, 0),
             savings_total_pln |-> Round(savings_total, 1, 0),
             white_high_m2 |-> r_high.white_area_m2,
             white_low_m2  |-> r_low.white_area_m2,
             gray_high_m2  |-> r_high.gray_area_m2,
             gray_low_m2   |-> r_low.gray_area_m2]]

\* Mutant: the door mix not passed on to the second calculate call, which
\* then runs on the defaults 0.5 / 0.5.
HeightSensitivityAnalysis_default_mix(s, pum_m2, height_high, height_low, pct_door_075, pct_door_1m, t) ==
    Savings(Calculate(s, pum_m2, height_high, pct_door_075, pct_door_1m,
                      t.high),
            Calculate(s, pum_m2, height_low, 10, 10, t.low),
            pum_m2, height_high, height_low)

\* height_sensitivity_analysis: calculate at height_high, calculate at
\* height_low, then the savings.
HeightSensitivityAnalysis(s, pum_m2, height_high, height_low, pct_door_075, pct_door_1m, t) ==
    Savings(Calculate(s, pum_m2, height_high, pct_door_075, pct_door_1m,
                      t.high),
            Calculate(s, pum_m2, height_low, pct_door_075, pct_door_1m,
                      t.low),
            pum_m2, height_high, height_low)

\* ------------------------------------------------------- halfway outcomes

Dir(isTie) == IF isTie THEN {0, 1} ELSE {0}

\* The outcomes round() can have in one calculate call: a choice only where
\* the exact value is a halfway case.
TieChoices(s, pum_m2, height_m, pct_door_075, pct_door_1m) ==
    LET v == Quantities(s, pum_m2, height_m, pct_door_075, pct_door_1m)
    IN  [gray_area_m2     : Dir(IsTie(v.gray_area, 100)),
         white_area_m2    : Dir(IsTie(v.white_area, 800)),
         kicker_length_mb : Dir(IsTie(v.kicker_length, 10)),
         door_count       : Dir(IsTie(v.door_count, 10)),
         avg_door_width_m : Dir(IsTie(v.avg_width * 25, 2)),
         cost_gray_pln    : Dir(CostIsTie(v.cost_gray)),
         cost_white_pln   : Dir(CostIsTie(v.cost_white)),
         cost_kicker_pln  : Dir(CostIsTie(v.cost_kicker)),
         cost_doors_pln   : Dir(CostIsTie(v.cost_doors)),
         cost_total_pln   : Dir(CostIsTie(v.cost_total))]

\* Fields whose computation does not read height_m: the two calls of one
\* analysis evaluate them on the same operands.
HeightFree ==
    {"kicker_length_mb", "door_count", "avg_door_width_m",
     "cost_kicker_pln", "cost_doors_pln"}

\* The same computation has the same outcome.
SameComputation(a, th, tl) ==
    /\ \A f \in HeightFree : th[f] = tl[f]
    /\ a.height_high = a.height_low => th = tl

\* ------------------------------------------------------------- the machine

Init ==
    \E p \in PriceTables, pum \in PumValues, hh \in HeightValues,
       hl \in HeightValues, mix \in DoorMixes :
        LET a == [pum_m2 |-> pum, height_high |-> hh, height_low |-> hl,
                  pct_door_075 |-> mix[1], pct_door_1m |-> mix[2]]
        IN  /\ self = p
            /\ ctor = p
            /\ args = a
            /\ \E th \in TieChoices(p, pum, hh, mix[1], mix[2]),
                  tl \in TieChoices(p, pum, hl, mix[1], mix[2]) :
                    /\ SameComputation(a, th, tl)
                    /\ tie = [high |-> th, low |-> tl]
            /\ report = NoReport
            /\ analysis = NoAnalysis

\* Mutant: calculate keeps a price it has changed.
calculate_storing_price ==
    /\ report' = Calculate(self, args.pum_m2, args.height_high,
                           args.pct_door_075, args.pct_door_1m, tie.high)
    /\ self' = [self EXCEPT !.price_white = 0]
    /\ UNCHANGED <<ctor, args, tie, analysis>>

\* calc.calculate(pum_m2, height_high, pct_door_075, pct_door_1m)
calculate ==
    /\ report' = Calculate(self, args.pum_m2, args.height_high,
                           args.pct_door_075, args.pct_door_1m, tie.high)
    /\ UNCHANGED <<self, ctor, args, tie, analysis>>

\* calc.height_sensitivity_analysis(pum_m2, height_high, height_low,
\*                                  pct_door_075, pct_door_1m)
height_sensitivity_analysis ==
    /\ analysis' = HeightSensitivityAnalysis(self, args.pum_m2,
                        args.height_high, args.height_low,
                        args.pct_door_075, args.pct_door_1m, tie)
    /\ UNCHANGED <<self, ctor, args, tie, report>>

Next == calculate \/ height_sensitivity_analysis

Spec == Init /\ [][Next]_vars

\* ------------------------------------------------------------- properties

Abs(x) == IF x < 0 THEN -x ELSE x

\* x is a nearest integer to num/unit.
Nearest(x, num, unit) == 2 * Abs(x * unit - num) <= unit

\* The inputs the docstrings ask for: a floor area, two hall heights, and
\* percentages in 0..1.
WellFormed ==
    /\ args.pum_m2 > 0 /\ args.height_high > 0 /\ args.height_low > 0
    /\ args.pct_door_075 \in 0 .. 20
    /\ args.pct_door_1m \in 0 .. 20

\* No rounded field of a report at height_m is a halfway case: the report
\* does not depend on representation error.
NoHalfway(height_m) ==
    Cardinality(TieChoices(self, args.pum_m2, height_m,
                           args.pct_door_075, args.pct_door_1m)) = 1

PctInRange ==
    /\ args.pct_door_075 \in 0 .. 20
    /\ args.pct_door_1m \in 0 .. 20

PricesNonNegative ==
    /\ self.price_white >= 0 /\ self.price_gray >= 0
    /\ self.price_kicker >= 0 /\ self.price_door_1m >= 0
    /\ self.price_door_075m >= 0

NonNegative(r) ==
    /\ r.gray_area_m2 >= 0 /\ r.white_area_m2 >= 0
    /\ r.kicker_length_mb >= 0 /\ r.door_count >= 0
    /\ r.cost_gray_pln >= 0 /\ r.cost_white_pln >= 0
    /\ r.cost_kicker_pln >= 0 /\ r.cost_doors_pln >= 0
    /\ r.cost_total_pln >= 0

\* C1: with pum_m2 > 0, height_m > 0, both percentages in [0,1] and
\* non-negative prices, the nine quantity and cost fields of the report
\* calculate returns are all >= 0.
C1_NonNegative ==
    (args.pum_m2 > 0 /\ PctInRange /\ PricesNonNegative) =>
        /\ (HasReport /\ args.height_high > 0) => NonNegative(report)
        /\ (HasAnalysis /\ args.height_high > 0) => NonNegative(analysis.r_high)
        /\ (HasAnalysis /\ args.height_low > 0) => NonNegative(analysis.r_low)

\* a report for a positive floor area and a hall lower than the doors, where
\* only the clamp keeps the lintel term from being negative
C1_Witness ==
    /\ HasReport /\ self = DefaultPrices
    /\ args.pum_m2 > 0
    /\ args.height_high > 0 /\ args.height_high < DOOR_HEIGHT_STANDARD
    /\ report.white_area_m2 >= 0 /\ report.cost_total_pln > 0

AllButWidthZero(r) ==
    /\ r.gray_area_m2 = 0 /\ r.white_area_m2 = 0
    /\ r.kicker_length_mb = 0 /\ r.door_count = 0
    /\ r.cost_gray_pln = 0 /\ r.cost_white_pln = 0
    /\ r.cost_kicker_pln = 0 /\ r.cost_doors_pln = 0
    /\ r.cost_total_pln = 0

\* C2 as stated: with pum_m2 = 0 every output field of the report is 0,
\* avg_door_width_m included.
C2_AllZero ==
    (HasReport /\ args.pum_m2 = 0) =>
        /\ AllButWidthZero(report)
        /\ report.avg_door_width_m = 0

\* C2 amended: with pum_m2 = 0 the four quantities and the five costs are 0,
\* and avg_door_width_m is the door mix's average width
\* pct_door_075 * 0.75 + pct_door_1m rounded to 3 decimals, whatever the
\* floor area.
C2_ZeroButWidth ==
    (HasReport /\ args.pum_m2 = 0) =>
        /\ AllButWidthZero(report)
        /\ Nearest(report.avg_door_width_m,
                   1000 * (args.pct_door_075 * 3 + args.pct_door_1m * 4), 80)

\* a report for floor area 0 whose average door width is not 0
C2_Witness ==
    /\ HasReport /\ args.pum_m2 = 0
    /\ report.avg_door_width_m > 0

\* The lower solid portion alone: pum_m2 * 0.23 * height_m, in 1/10000 m2.
LowerPortion(height_m) == args.pum_m2 * 23 * height_m

\* C3: with height_m <= 2.1 the lintel portion is 0, so white_area_m2 is the
\* lower solid portion pum_m2 * 0.23 * height_m rounded to 2 decimals.
C3_NoLintelBelowDoor ==
    /\ (HasReport /\ args.height_high <= 21) =>
            Nearest(report.white_area_m2, LowerPortion(args.height_high), 100)
    /\ (HasAnalysis /\ args.height_high <= 21) =>
            Nearest(analysis.r_high.white_area_m2,
                    LowerPortion(args.height_high), 100)
    /\ (HasAnalysis /\ args.height_low <= 21) =>
            Nearest(analysis.r_low.white_area_m2,
                    LowerPortion(args.height_low), 100)

\* an analysis of a real floor area with one hall exactly at the door clear
\* height and the other below it
C3_Witness ==
    /\ HasAnalysis
    /\ args.pum_m2 > 0 /\ args.pct_door_075 > 0
    /\ args.height_high = 21
    /\ args.height_low > 0 /\ args.height_low < 21
    /\ analysis.r_high.white_area_m2 > analysis.r_low.white_area_m2

\* The unrounded areas at height_high minus those at height_low:
\* gray in 1/10000 m2, lintels and white in 1/80000 m2.
ClearAbove(height_m) == IF height_m > 21 THEN height_m - 21 ELSE 0

GrayDifference == args.pum_m2 * 79 * (args.height_high - args.height_low)

LintelDifference ==
    args.pum_m2 * 3 * (args.pct_door_075 * 3 + args.pct_door_1m * 4)
        * (ClearAbove(args.height_high) - ClearAbove(args.height_low))

WhiteDifference ==
    8 * args.pum_m2 * 23 * (args.height_high - args.height_low)
        + LintelDifference

\* C4 as stated: for pum_m2 > 0 and a fixed door mix, the report at the
\* greater of two heights has a strictly larger gray_area_m2 and, when both
\* heights exceed 2.1, a strictly larger white_area_m2.  Stated for
\* well-formed inputs without halfway cases.
C4_StrictlyIncreasing ==
    (HasAnalysis /\ WellFormed
        /\ NoHalfway(args.height_high) /\ NoHalfway(args.height_low)
        /\ args.height_low < args.height_high) =>
        /\ analysis.r_high.gray_area_m2 > analysis.r_low.gray_area_m2
        /\ args.height_low > 21 =>
              analysis.r_high.white_area_m2 > analysis.r_low.white_area_m2

\* C4 amended: the report at the greater height has a gray_area_m2 and, when
\* both heights exceed 2.1, a white_area_m2 that is at least as large, and
\* strictly larger when the unrounded areas differ by 0.02 m2 or more.
C4_NonDecreasing ==
    (HasAnalysis /\ args.pum_m2 > 0 /\ PctInRange
        /\ args.height_low < args.height_high) =>
        /\ analysis.r_high.gray_area_m2 >= analysis.r_low.gray_area_m2
        /\ GrayDifference >= 200 =>
              analysis.r_high.gray_area_m2 > analysis.r_low.gray_area_m2
        /\ args.height_low > 21 =>
              /\ analysis.r_high.white_area_m2 >= analysis.r_low.white_area_m2
              /\ WhiteDifference >= 1600 =>
                    analysis.r_high.white_area_m2
                        > analysis.r_low.white_area_m2

\* two halls above the door clear height whose reports show the same white
\* area, and a larger gray area for the higher hall
C4_Witness ==
    /\ HasAnalysis /\ args.pum_m2 > 0
    /\ 21 < args.height_low /\ args.height_low < args.height_high
    /\ analysis.r_high.white_area_m2 = analysis.r_low.white_area_m2
    /\ analysis.r_high.gray_area_m2 > analysis.r_low.gray_area_m2

\* C5: kicker_length_mb, door_count, cost_kicker_pln and cost_doors_pln of
\* the two reports of one analysis are equal: they do not depend on height_m.
C5_HeightInvariant ==
    HasAnalysis =>
        /\ analysis.r_high.kicker_length_mb = analysis.r_low.kicker_length_mb
        /\ analysis.r_high.door_count = analysis.r_low.door_count
        /\ analysis.r_high.cost_kicker_pln = analysis.r_low.cost_kicker_pln
        /\ analysis.r_high.cost_doors_pln = analysis.r_low.cost_doors_pln

\* an analysis of a real floor area at two different heights, whose reports
\* differ in the wall areas
C5_Witness ==
    /\ HasAnalysis /\ args.pum_m2 > 0
    /\ args.height_high # args.height_low
    /\ analysis.r_high.gray_area_m2 # analysis.r_low.gray_area_m2
    /\ analysis.r_high.white_area_m2 # analysis.r_low.white_area_m2
    /\ analysis.r_high.kicker_length_mb > 0
    /\ analysis.r_high.cost_doors_pln > 0

\* C6: the two reports an analysis returns are the reports calculate gives
\* for the same floor area and door mix at height_high and at height_low,
\* and savings_total_pln is the difference of their cost_total_pln.
C6_AnalysisIsTwoCalculations ==
    HasAnalysis =>
        LET high == Calculate(self, args.pum_m2, args.height_high,
                              args.pct_door_075, args.pct_door_1m, tie.high)
            low  == Calculate(self, args.pum_m2, args.height_low,
                              args.pct_door_075, args.pct_door_1m, tie.low)
        IN  /\ analysis.r_high = high
            /\ analysis.r_low = low
            /\ HasReport => analysis.r_high = report
            /\ analysis.analysis.savings_total_pln
                   = high.cost_total_pln - low.cost_total_pln

\* a calculate call and an analysis of the same inputs with a door mix other
\* than the default, two different heights and savings that are not 0
C6_Witness ==
    /\ HasAnalysis /\ HasReport
    /\ args.pct_door_075 # 10
    /\ args.height_high > args.height_low
    /\ analysis.analysis.savings_total_pln > 0

C8_PricesUnchanged ==
    /\ self = ctor
    /\ HasReport =>
          report = Calculate(ctor, args.pum_m2, args.height_high,
                             args.pct_door_075, args.pct_door_1m, tie.high)
    /\ HasAnalysis =>
          analysis = HeightSensitivityAnalysis(ctor, args.pum_m2,
                          args.height_high, args.height_low,
                          args.pct_door_075, args.pct_door_1m, tie)

\* both operations have been called on a calculator constructed with its own
\* prices
C8_Witness ==
    /\ HasReport /\ HasAnalysis
    /\ self = OverridePrices /\ args.pum_m2 > 0
    /\ report.cost_total_pln > 0

\* C9: calculate(126.5, 2.5, 0.65, 0.35) with the default prices returns
\* approximately (here: within 5 % of) Project B's gray area 217.5 m2, white
\* area 73.48 m2 and kicker length 23.75 mb.
C9_ReproducesProjectB ==
    (/\ HasReport /\ self = DefaultPrices
     /\ args.pum_m2 = 1265 /\ args.height_high = 25
     /\ args.pct_door_075 = 13 /\ args.pct_door_1m = 7) =>
        /\ 20 * Abs(report.gray_area_m2 - 21750) <= 21750
        /\ 20 * Abs(report.white_area_m2 - 7348) <= 7348
        /\ 20 * Abs(report.kicker_length_mb - 2375) <= 2375

ComponentSum(r) ==
    r.cost_gray_pln + r.cost_white_pln + r.cost_kicker_pln + r.cost_doors_pln

\* C10 as stated: the reported cost_total_pln is the sum of the four
\* reported cost components.  Stated for well-formed inputs without halfway
\* cases.
C10_TotalIsSum ==
    (HasReport /\ WellFormed /\ NoHalfway(args.height_high)) => report.cost_total_pln = ComponentSum(report)

\* C10 amended: the reported cost_total_pln differs from the sum of the four
\* reported cost components by at most 0.02.
C10_TotalNearSum ==
    HasReport => Abs(report.cost_total_pln - ComponentSum(report)) <= 2

\* a report whose total is not the sum of its four components
C10_Witness ==
    /\ HasReport /\ args.pum_m2 > 0 /\ args.height_high > 0
    /\ report.cost_total_pln # ComponentSum(report)

====
